---- MODULE Spec2Model ----
(***************************************************************************)
(* Tensor-model-parallel layers of megatron/mpu/layers.py:                 *)
(* VocabParallelEmbedding, ColumnParallelLinear, RowParallelLinear, the    *)
(* host/device weight initializers and the parameter tagging helpers.      *)
(*                                                                         *)
(* Tensors are matrices (sequences of rows) of integers.  Floating-point   *)
(* values are modelled in fixed point.  One process per tensor-parallel    *)
(* rank; every rank owns its own layer instances.  An exception raised     *)
(* inside a constructor or a method leaves the instance with exactly the   *)
(* attributes assigned before the raise; the exception is recorded in the  *)
(* instance's err field.                                                   *)
(***************************************************************************)
EXTENDS Integers, Sequences, FiniteSets, TLC

(***************************************************************************)
(* Bounds of the model.                                                    *)
(***************************************************************************)
MaxWorldSize == 2
MaxVocab == 4
MaxLen == 1
MaxUpdates == 2
MaxRoundUpdates == 1
MaxTp == MaxVocab
MaxStride == 3
Width == 2
MaxExtent == 6
MaxGroup == 4
MaxSeed == 1

(***************************************************************************)
(* Values shared by every specification.                                   *)
(***************************************************************************)
VARIABLES
    world,    \* get_tensor_model_parallel_world_size()
    args,     \* get_args()
    model,    \* the constructor arguments every rank builds its layers with
    layer,    \* layer[r]: the layer instance of the process of rank r
    batch,    \* the input every rank is handed in this round, <<>> between rounds
    fwd,      \* fwd[r]: where rank r stands in its forward call
    last,     \* the latest update_parallel_state call, and how many were made
    tagged,   \* two tensors' tags, and what the latest tagging call raised
    host      \* host[G]: the host-path initialization of a weight under group size G

vars == <<world, args, model, layer, batch, fwd, last, tagged, host>>

Ranks == 0 .. (world - 1)

\* an attribute that holds no tensor
NoParam == [data |-> <<>>, attrs |-> <<>>, live |-> FALSE]

AttrNames == {"tensor_model_parallel", "partition_dim", "partition_stride"}

_MODEL_PARALLEL_ATTRIBUTE_DEFAULTS ==
    [a \in AttrNames |->
        CASE a = "tensor_model_parallel" -> FALSE
          [] a = "partition_dim" -> -1
          [] a = "partition_stride" -> 1]

(***************************************************************************)
(* Tensor arithmetic (torch), on matrices given as sequences of rows.      *)
(***************************************************************************)
Min(a, b) == IF a <= b THEN a ELSE b

Zeros(n) == [j \in 1 .. n |-> 0]

AddRows(a, b) == [j \in 1 .. Len(a) |-> a[j] + b[j]]

NumCols(m) == IF Len(m) = 0 THEN 0 ELSE Len(m[1])

Transpose(m) == [j \in 1 .. NumCols(m) |-> [i \in 1 .. Len(m) |-> m[i][j]]]

RECURSIVE CatRows(_)
\* torch.cat(list, dim=0) of a non-empty list of matrices
CatRows(list) ==
    IF Len(list) = 0 THEN <<>> ELSE Head(list) \o CatRows(Tail(list))

\* torch.split(m, size, dim=0): consecutive chunks of `size` rows, the last
\* one shorter when size does not divide the extent
SplitRows(m, size) ==
    LET n == (Len(m) + size - 1) \div size
    IN  [i \in 1 .. n |-> SubSeq(m, (i - 1) * size + 1, Min(i * size, Len(m)))]

torch_split(m, size, dim) ==
    IF dim = 0 THEN SplitRows(m, size)
    ELSE LET t == SplitRows(Transpose(m), size)
         IN  [i \in 1 .. Len(t) |-> Transpose(t[i])]

torch_cat(list, dim) ==
    IF dim = 0 THEN CatRows(list)
    ELSE Transpose(CatRows([i \in 1 .. Len(list) |-> Transpose(list[i])]))

\* list[start::step] of Python, on a 1-based sequence
StridedSlice(list, start, step) ==
    LET n == IF Len(list) > start
             THEN (Len(list) - start + step - 1) \div step ELSE 0
    IN  [i \in 1 .. n |-> list[start + (i - 1) * step + 1]]

(***************************************************************************)
(* utils.divide and VocabUtility (megatron/mpu/utils.py).                  *)
(***************************************************************************)
Ok(v) == [err |-> "none", val |-> v]

Raise(e) == [err |-> e, val |-> <<>>]

divide(numerator, denominator) ==
    IF numerator % denominator # 0 THEN Raise("ConfigError")
    ELSE Ok(numerator \div denominator)

vocab_range_from_global_vocab_size(global_vocab_size, rank, world_size) ==
    LET per == divide(global_vocab_size, world_size)
    IN  IF per.err # "none" THEN per
        ELSE Ok(<<rank * per.val, rank * per.val + per.val>>)

(***************************************************************************)
(* Random initializers.  The k-th value drawn from the generator seeded    *)
(* with `seed` is RawSample(seed, k); an initializer scales the draws by   *)
(* its standard deviation or bound, kept in fixed point.                   *)
(***************************************************************************)
FixedPoint == 100

Isqrt(n) == CHOOSE k \in 0 .. 32 : k * k <= n /\ (k + 1) * (k + 1) > n

RawSample(seed, k) == ((seed * 37 + k * 11) % 101) + 1

\* the scale an initializer applies on a tensor of `rows` x `cols`
InitScale(method, rows, cols) ==
    CASE method.name = "xavier_normal_" ->
            Isqrt((2 * FixedPoint) \div (cols + rows))
      [] method.name = "normal_" -> 2
      [] method.name = "xavier_uniform_tensor_parallel_" ->
            Isqrt((6 * FixedPoint) \div (cols + rows * method.tp_degree))

\* init_method(tensor): fills a rows x cols tensor in row-major order
init_method(method, seed, rows, cols) ==
    LET a == InitScale(method, rows, cols)
    IN  [i \in 1 .. rows |->
            [j \in 1 .. cols |-> RawSample(seed, (i - 1) * cols + j) * a]]

xavier_normal_ == [name |-> "xavier_normal_", tp_degree |-> 1]

normal_ == [name |-> "normal_", tp_degree |-> 1]

xavier_uniform_tensor_parallel_(tp_degree) ==
    [name |-> "xavier_uniform_tensor_parallel_", tp_degree |-> tp_degree]

\* get_cuda_rng_tracker().fork(): the rank's own model-parallel stream
ForkSeed(seed, rank) == seed + 1 + rank

(***************************************************************************)
(* Parameter tags.  A parameter's attrs is a function whose domain is the  *)
(* set of attributes that are set (hasattr).                               *)
(***************************************************************************)
hasattr(attrs, a) == a \in DOMAIN attrs

setattr(attrs, a, v) ==
    [x \in (DOMAIN attrs) \cup {a} |-> IF x = a THEN v ELSE attrs[x]]

NoAttrs == [x \in {} |-> FALSE]

set_tensor_model_parallel_attributes(attrs, is_parallel, dim, stride) ==
    IF \E a \in AttrNames : hasattr(attrs, a) THEN Raise("AssertionError")
    ELSE Ok(setattr(setattr(setattr(attrs,
                "tensor_model_parallel", is_parallel),
                "partition_dim", dim),
                "partition_stride", stride))

set_defaults_if_not_set_tensor_model_parallel_attributes(attrs) ==
    [x \in (DOMAIN attrs) \cup AttrNames |->
        IF hasattr(attrs, x) THEN attrs[x]
        ELSE _MODEL_PARALLEL_ATTRIBUTE_DEFAULTS[x]]

copy_tensor_model_parallel_attributes(destination, source) ==
    [x \in (DOMAIN destination) \cup ((DOMAIN source) \cap AttrNames) |->
        IF x \in AttrNames /\ hasattr(source, x) THEN source[x]
        ELSE destination[x]]

(***************************************************************************)
(* Weight initialization.                                                  *)
(***************************************************************************)
\* what torch.empty may hold, and what the torch build does with out=
Runtimes == [garbage : {0, 1}, resizes : BOOLEAN]

Filled(rows, cols, g) == [i \in 1 .. rows |-> [j \in 1 .. cols |-> g]]

\* _initialize_affine_weight_gpu: the local tensor is filled in place under
\* the rank's forked random state
_initialize_affine_weight_gpu(rows, cols, method, partition_dim, stride, seed, rank) ==
    LET tags == set_tensor_model_parallel_attributes(NoAttrs, TRUE,
                                                     partition_dim, stride)
    IN  Ok([data |-> init_method(method, ForkSeed(seed, rank), rows, cols),
            attrs |-> tags.val, live |-> TRUE])

\* a contiguous run of the sub-blocks instead of every world_size-th one
my_weight_list_contiguous(weight_list, rank, world_size) ==
    LET n == Len(weight_list) \div world_size
    IN  SubSeq(weight_list, rank * n + 1, (rank + 1) * n)

\* weight_list[rank::world_size]: the sub-blocks that go to `rank`
my_weight_list(weight_list, rank, world_size) ==
    StridedSlice(weight_list, rank, world_size)

\* _initialize_affine_weight_cpu on a local tensor of rows x cols.  rt.garbage
\* is what torch.empty left in the local tensor, which stays there when the
\* copy is never reached; rt.resizes tells whether this torch build lets
\* torch.cat resize an out= tensor of another shape or raises instead
_initialize_affine_weight_cpu(rt, rows, cols, output_size, input_size, per_partition_size, partition_dim, method, stride, seed, rank, world_size) ==
    LET tags == set_tensor_model_parallel_attributes(NoAttrs, TRUE,
                                                     partition_dim, stride)
        master_weight == init_method(method, seed, output_size, input_size)
        size == divide(per_partition_size, stride)
        weight_list == torch_split(master_weight, size.val, partition_dim)
        mine == my_weight_list(weight_list, rank, world_size)
        uninit == [data |-> Filled(rows, cols, rt.garbage),
                   attrs |-> tags.val, live |-> TRUE]
        joined == torch_cat(mine, partition_dim)
    IN  IF size.err # "none" THEN [err |-> size.err, val |-> uninit]
        ELSE IF Len(mine) = 0 THEN [err |-> "RuntimeError", val |-> uninit]
        ELSE IF (Len(joined) # rows \/ NumCols(joined) # cols)
                /\ ~rt.resizes
        THEN [err |-> "RuntimeError", val |-> uninit]
        ELSE Ok([data |-> joined, attrs |-> tags.val, live |-> TRUE])

\* the master weight _initialize_affine_weight_cpu hands back
returned_master_weight(output_size, input_size, method, seed, return_master_weight) ==
    IF return_master_weight
    THEN init_method(method, seed, output_size, input_size)
    ELSE <<>>

(***************************************************************************)
(* VocabParallelEmbedding.                                                 *)
(***************************************************************************)
NoEmbedding ==
    [cls |-> "none", err |-> "none",
     num_embeddings |-> 0, embedding_dim |-> 0,
     tensor_model_parallel_size |-> 0,
     parallel_state |-> [tp_size |-> 0, tp_rank |-> 0],
     has_range |-> FALSE,
     vocab_start_index |-> 0, vocab_end_index |-> 0,
     num_embeddings_per_partition |-> 0,
     weight |-> NoParam, n_init |-> 0, has_norm |-> FALSE]

\* VocabParallelEmbedding._update_vocab_range
_update_vocab_range(self) ==
    LET range == vocab_range_from_global_vocab_size(
                     self.num_embeddings,
                     self.parallel_state.tp_rank,
                     self.parallel_state.tp_size)
    IN  IF range.err # "none" THEN [err |-> range.err, val |-> self]
        ELSE Ok([self EXCEPT
                    !.has_range = TRUE,
                    !.vocab_start_index = range.val[1],
                    !.vocab_end_index = range.val[2],
                    !.num_embeddings_per_partition =
                        range.val[2] - range.val[1]])

\* the initializer _initialize_weight goes on with: with the bnb optimizer,
\* xavier_uniform_tensor_parallel_ bound to the recorded group size
chosen_init_method(use_bnb_optimizer, method, tp_size) ==
    IF use_bnb_optimizer THEN xavier_uniform_tensor_parallel_(tp_size)
    ELSE method

\* VocabParallelEmbedding._initialize_weight, run by the process of `rank`;
\* n_init counts the initializations of the weight
_initialize_weight(self, method, rank, rt) ==
    LET chosen == chosen_init_method(args.use_bnb_optimizer, method,
                                     self.parallel_state.tp_size)
        rows == self.num_embeddings_per_partition
        init == IF args.use_cpu_initialization
                THEN _initialize_affine_weight_cpu(
                         rt, rows, self.embedding_dim,
                         self.num_embeddings, self.embedding_dim,
                         rows, 0, chosen, 1, args.seed, rank, world)
                ELSE _initialize_affine_weight_gpu(
                         rows, self.embedding_dim, chosen, 0, 1,
                         args.seed, rank)
    IN  [err |-> init.err,
         val |-> [self EXCEPT !.weight = init.val,
                              !.n_init = self.n_init + 1]]

\* VocabParallelEmbedding.__init__
VocabParallelEmbedding_init(num_embeddings, embedding_dim, method, rank, rt) ==
    LET s0 == [NoEmbedding EXCEPT
                  !.cls = "VocabParallelEmbedding",
                  !.num_embeddings = num_embeddings,
                  !.embedding_dim = embedding_dim,
                  !.tensor_model_parallel_size = world,
                  !.parallel_state = [tp_size |-> world, tp_rank |-> rank]]
        s1 == _update_vocab_range(s0)
        s2 == _initialize_weight(s1.val, method, rank, rt)
    IN  IF s1.err # "none" THEN [s1.val EXCEPT !.err = s1.err]
        ELSE IF s2.err # "none" THEN [s2.val EXCEPT !.err = s2.err]
        ELSE [s2.val EXCEPT
                 !.has_norm = args.use_bnb_optimizer \/ args.embed_layernorm]

\* VocabParallelEmbedding.update_parallel_state; given = FALSE is tp_size=None
VocabParallelEmbedding_update_parallel_state(self, given, tp_size, rank, rt) ==
    IF given /\ tp_size # self.parallel_state.tp_size
    THEN LET s0 == [self EXCEPT
                       !.parallel_state =
                           [tp_size |-> tp_size, tp_rank |-> rank]]
             s1 == _update_vocab_range(s0)
             method == IF args.use_bnb_optimizer
                       THEN xavier_uniform_tensor_parallel_(tp_size)
                       ELSE xavier_normal_
             s2 == _initialize_weight(s1.val, method, rank, rt)
         IN  IF s1.err # "none" THEN [s1.val EXCEPT !.err = s1.err]
             ELSE [s2.val EXCEPT !.err = s2.err]
    ELSE [self EXCEPT !.err = "none"]

\* input_mask of forward
input_mask(self, input_) ==
    [i \in 1 .. Len(input_) |->
        self.tensor_model_parallel_size > 1
        /\ (input_[i] < self.vocab_start_index
            \/ input_[i] >= self.vocab_end_index)]

\* masked_input without the shift by vocab_start_index
masked_input_unshifted(self, input_) ==
    IF self.tensor_model_parallel_size > 1
    THEN [i \in 1 .. Len(input_) |->
            IF input_mask(self, input_)[i] THEN 0 ELSE input_[i]]
    ELSE input_

\* masked_input of forward
masked_input(self, input_) ==
    IF self.tensor_model_parallel_size > 1
    THEN [i \in 1 .. Len(input_) |->
            IF input_mask(self, input_)[i] THEN 0
            ELSE input_[i] - self.vocab_start_index]
    ELSE input_

\* F.embedding
F_embedding(indices, weight) ==
    IF \E i \in 1 .. Len(indices) :
            indices[i] < 0 \/ indices[i] >= Len(weight)
    THEN Raise("IndexError")
    ELSE Ok([i \in 1 .. Len(indices) |-> weight[indices[i] + 1]])

\* torch.any(input_ > num_embeddings): lets the id num_embeddings through
any_above(input_, num_embeddings) ==
    \E i \in 1 .. Len(input_) : input_[i] > num_embeddings

\* torch.any(input_ >= self.num_embeddings), the guard of forward
any_out_of_range(input_, num_embeddings) ==
    \E i \in 1 .. Len(input_) : input_[i] >= num_embeddings

\* forward with the range check made against the rank's own partition
VocabParallelEmbedding_forward_local_check(self, input_) ==
    IF \E i \in 1 .. Len(input_) : input_[i] >= self.vocab_end_index
    THEN Raise("ValueError")
    ELSE IF ~self.weight.live THEN Raise("AttributeError")
    ELSE LET looked == F_embedding(masked_input(self, input_),
                                   self.weight.data)
             mask == input_mask(self, input_)
         IN  IF looked.err # "none" THEN looked
             ELSE Ok([i \in 1 .. Len(input_) |->
                        IF mask[i] THEN Zeros(Len(looked.val[i]))
                        ELSE looked.val[i]])

\* VocabParallelEmbedding.forward up to the Reduce collective
VocabParallelEmbedding_forward(self, input_) ==
    IF any_out_of_range(input_, self.num_embeddings)
    THEN Raise("ValueError")
    ELSE IF self.tensor_model_parallel_size > 1 /\ ~self.has_range
    THEN Raise("AttributeError")
    ELSE IF ~self.weight.live THEN Raise("AttributeError")
    ELSE LET looked == F_embedding(masked_input(self, input_),
                                   self.weight.data)
             mask == input_mask(self, input_)
         IN  IF looked.err # "none" THEN looked
             ELSE Ok([i \in 1 .. Len(input_) |->
                        IF mask[i] THEN Zeros(Len(looked.val[i]))
                        ELSE looked.val[i]])

(***************************************************************************)
(* ColumnParallelLinear and RowParallelLinear.  The bias attribute is      *)
(* "unset" until something is assigned to self.bias, "None" after          *)
(* register_parameter('bias', None), and "Parameter" when it holds one.    *)
(***************************************************************************)
RECURSIVE SumSeq(_)
SumSeq(q) == IF Len(q) = 0 THEN 0 ELSE Head(q) + SumSeq(Tail(q))

\* F.linear(x, weight) without bias: x * weight^T
F_linear(x, weight) ==
    IF NumCols(x) # NumCols(weight) THEN Raise("RuntimeError")
    ELSE Ok([b \in 1 .. Len(x) |->
                [o \in 1 .. Len(weight) |->
                    SumSeq([k \in 1 .. NumCols(x) |->
                               x[b][k] * weight[o][k]])]])

\* output + bias, the bias broadcast over the rows
AddBias(output, bias) ==
    IF NumCols(output) # Len(bias) THEN Raise("RuntimeError")
    ELSE Ok([b \in 1 .. Len(output) |-> AddRows(output[b], bias)])

UnsetBias == [state |-> "unset", data |-> <<>>, attrs |-> <<>>]

NoneBias == [state |-> "None", data |-> <<>>, attrs |-> <<>>]

NoLinear ==
    [cls |-> "none", err |-> "none",
     input_size |-> 0, output_size |-> 0,
     gather_output |-> FALSE, input_is_parallel |-> FALSE,
     init_method |-> xavier_normal_, stride |-> 1,
     keep_master_weight_for_test |-> FALSE, skip_bias_add |-> FALSE,
     parallel_state |-> [tp_size |-> 0, tp_rank |-> 0],
     has_size |-> FALSE,
     output_size_per_partition |-> 0, input_size_per_partition |-> 0,
     weight |-> NoParam, master_weight |-> <<>>, bias |-> UnsetBias,
     n_init |-> 0, bias_tp_auto_sync |-> "unset"]

\* `if self.bias:`; reading an attribute that was never assigned raises
bias_truth(bias) ==
    CASE bias.state = "unset" -> Raise("AttributeError")
      [] bias.state = "None" -> Ok(FALSE)
      [] bias.state = "Parameter" ->
            IF Len(bias.data) > 1 THEN Raise("RuntimeError")
            ELSE Ok(Len(bias.data) = 1 /\ bias.data[1] # 0)

\* the weight part of _initialize_weights, shared by both layers
linear_weight(self, rows, cols, per_partition_size, partition_dim, rank, rt) ==
    IF args.use_cpu_initialization
    THEN _initialize_affine_weight_cpu(
             rt, rows, cols, self.output_size, self.input_size,
             per_partition_size, partition_dim, self.init_method,
             self.stride, args.seed, rank, world)
    ELSE _initialize_affine_weight_gpu(
             rows, cols, self.init_method, partition_dim, self.stride,
             args.seed, rank)

\* ColumnParallelLinear._update_sizes
ColumnParallelLinear_update_sizes(self) ==
    LET per == divide(self.output_size, self.parallel_state.tp_size)
    IN  IF per.err # "none" THEN [err |-> per.err, val |-> self]
        ELSE Ok([self EXCEPT !.has_size = TRUE,
                             !.output_size_per_partition = per.val])

\* ColumnParallelLinear._initialize_weights
ColumnParallelLinear_initialize_weights(self, rank, rt) ==
    LET init == linear_weight(self, self.output_size_per_partition,
                              self.input_size,
                              self.output_size_per_partition, 0, rank, rt)
        s1 == [self EXCEPT
                  !.weight = init.val,
                  !.n_init = self.n_init + 1,
                  !.master_weight =
                      IF args.use_cpu_initialization /\ init.err = "none"
                      THEN returned_master_weight(
                               self.output_size, self.input_size,
                               self.init_method, args.seed,
                               self.keep_master_weight_for_test)
                      ELSE self.master_weight]
        truth == bias_truth(s1.bias)
    IN  IF init.err # "none" THEN [err |-> init.err, val |-> s1]
        ELSE IF truth.err # "none" THEN [err |-> truth.err, val |-> s1]
        ELSE IF truth.val
        THEN Ok([s1 EXCEPT !.bias =
                    [state |-> "Parameter",
                     data |-> Zeros(self.output_size_per_partition),
                     attrs |-> set_tensor_model_parallel_attributes(
                                   <<>>, TRUE, 0, self.stride).val]])
        ELSE Ok([s1 EXCEPT !.bias = NoneBias])

\* ColumnParallelLinear.__init__
ColumnParallelLinear_init(input_size, output_size, bias, gather_output, method, stride, skip_bias_add, rank, rt) ==
    LET s0 == [NoLinear EXCEPT
                  !.cls = "ColumnParallelLinear",
                  !.input_size = input_size,
                  !.output_size = output_size,
                  !.gather_output = gather_output,
                  !.init_method = method,
                  !.stride = stride,
                  !.skip_bias_add = skip_bias_add,
                  !.parallel_state = [tp_size |-> world, tp_rank |-> rank]]
        s1 == ColumnParallelLinear_update_sizes(s0)
        s2 == ColumnParallelLinear_initialize_weights(s1.val, rank, rt)
    IN  IF s1.err # "none" THEN [s1.val EXCEPT !.err = s1.err]
        ELSE [s2.val EXCEPT !.err = s2.err]

\* ColumnParallelLinear.update_parallel_state; given = FALSE is tp_size=None
ColumnParallelLinear_update_parallel_state(self, given, tp_size, rank, rt) ==
    IF given /\ tp_size # self.parallel_state.tp_size
    THEN LET s0 == [self EXCEPT
                       !.parallel_state =
                           [tp_size |-> tp_size, tp_rank |-> rank]]
             s1 == ColumnParallelLinear_update_sizes(s0)
             s2 == ColumnParallelLinear_initialize_weights(s1.val, rank, rt)
         IN  IF ~self.has_size THEN [s0 EXCEPT !.err = "AttributeError"]
             ELSE IF s1.err # "none" THEN [s1.val EXCEPT !.err = s1.err]
             ELSE IF self.output_size_per_partition #
                         s1.val.output_size_per_partition
             THEN [s2.val EXCEPT !.err = s2.err]
             ELSE [s1.val EXCEPT !.err = "none"]
    ELSE [self EXCEPT !.err = "none"]

\* ColumnParallelLinear.forward up to the Gather collective: val.wait tells
\* whether the call goes on to the collective or returns val.output
ColumnParallelLinear_forward(self, input_) ==
    LET product == F_linear(input_, self.weight.data)
        biased == IF self.bias.state = "Parameter" /\ ~self.skip_bias_add
                  THEN AddBias(product.val, self.bias.data)
                  ELSE product
    IN  IF ~self.weight.live THEN Raise("AttributeError")
        ELSE IF product.err # "none" THEN product
        ELSE IF self.bias.state = "unset" THEN Raise("AttributeError")
        ELSE IF biased.err # "none" THEN biased
        ELSE Ok([wait |-> self.gather_output, output |-> biased.val])

\* ColumnParallelLinear.forward from the Gather collective on
ColumnParallelLinear_return(self, output) ==
    IF self.bias.state = "Parameter" /\ self.skip_bias_add
    THEN Ok([rows |-> output, bias |-> self.bias.data])
    ELSE Ok([rows |-> output, bias |-> <<>>])

\* RowParallelLinear._update_sizes
RowParallelLinear_update_sizes(self) ==
    LET per == divide(self.input_size, self.parallel_state.tp_size)
    IN  IF per.err # "none" THEN [err |-> per.err, val |-> self]
        ELSE Ok([self EXCEPT !.has_size = TRUE,
                             !.input_size_per_partition = per.val])

\* RowParallelLinear._initialize_weights
RowParallelLinear_initialize_weights(self, rank, rt) ==
    LET init == linear_weight(self, self.output_size,
                              self.input_size_per_partition,
                              self.input_size_per_partition, 1, rank, rt)
        s1 == [self EXCEPT
                  !.weight = init.val,
                  !.n_init = self.n_init + 1,
                  !.master_weight =
                      IF args.use_cpu_initialization /\ init.err = "none"
                      THEN returned_master_weight(
                               self.output_size, self.input_size,
                               self.init_method, args.seed,
                               self.keep_master_weight_for_test)
                      ELSE self.master_weight]
        truth == bias_truth(s1.bias)
    IN  IF init.err # "none" THEN [err |-> init.err, val |-> s1]
        ELSE IF truth.err # "none" THEN [err |-> truth.err, val |-> s1]
        ELSE IF truth.val
        THEN Ok([s1 EXCEPT !.bias =
                    [state |-> "Parameter",
                     data |-> Zeros(self.output_size),
                     attrs |-> <<>>]])
        ELSE Ok([s1 EXCEPT !.bias = NoneBias])

\* RowParallelLinear.__init__
RowParallelLinear_init(input_size, output_size, bias, input_is_parallel, method, stride, skip_bias_add, rank, rt) ==
    LET s0 == [NoLinear EXCEPT
                  !.cls = "RowParallelLinear",
                  !.input_size = input_size,
                  !.output_size = output_size,
                  !.input_is_parallel = input_is_parallel,
                  !.init_method = method,
                  !.stride = stride,
                  !.skip_bias_add = skip_bias_add,
                  !.parallel_state = [tp_size |-> world, tp_rank |-> rank]]
        s1 == RowParallelLinear_update_sizes(s0)
        s2 == RowParallelLinear_initialize_weights(s1.val, rank, rt)
    IN  IF s1.err # "none" THEN [s1.val EXCEPT !.err = s1.err]
        ELSE IF s2.err # "none" THEN [s2.val EXCEPT !.err = s2.err]
        ELSE [s2.val EXCEPT
                 !.bias_tp_auto_sync = args.sync_tp_duplicated_parameters]

\* RowParallelLinear.update_parallel_state; given = FALSE is tp_size=None
RowParallelLinear_update_parallel_state(self, given, tp_size, rank, rt) ==
    IF given /\ tp_size # self.parallel_state.tp_size
    THEN LET s0 == [self EXCEPT
                       !.parallel_state =
                           [tp_size |-> tp_size, tp_rank |-> rank]]
             s1 == RowParallelLinear_update_sizes(s0)
             s2 == RowParallelLinear_initialize_weights(s1.val, rank, rt)
         IN  IF ~self.has_size THEN [s0 EXCEPT !.err = "AttributeError"]
             ELSE IF s1.err # "none" THEN [s1.val EXCEPT !.err = s1.err]
             ELSE IF self.input_size_per_partition #
                         s1.val.input_size_per_partition
             THEN [s2.val EXCEPT !.err = s2.err]
             ELSE [s1.val EXCEPT !.err = "none"]
    ELSE [self EXCEPT !.err = "none"]

\* scatter_to_tensor_model_parallel_region: the rank's chunk of the last axis
scatter_to_tensor_model_parallel_region(input_, rank) ==
    LET per == divide(NumCols(input_), world)
    IN  IF per.err # "none" THEN per
        ELSE Ok(torch_split(input_, per.val, 1)[rank + 1])

\* RowParallelLinear.forward up to the Reduce collective
RowParallelLinear_forward(self, input_, rank) ==
    LET input_parallel ==
            IF self.input_is_parallel THEN Ok(input_)
            ELSE scatter_to_tensor_model_parallel_region(input_, rank)
    IN  IF input_parallel.err # "none" THEN input_parallel
        ELSE IF ~self.weight.live THEN Raise("AttributeError")
        ELSE F_linear(input_parallel.val, self.weight.data)

\* RowParallelLinear.forward from the Reduce collective on
RowParallelLinear_return(self, output_) ==
    LET output == IF self.bias.state = "Parameter" /\ ~self.skip_bias_add
                  THEN AddBias(output_, self.bias.data)
                  ELSE Ok(output_)
    IN  IF self.bias.state = "unset" THEN Raise("AttributeError")
        ELSE IF output.err # "none" THEN output
        ELSE IF self.bias.state = "Parameter" /\ self.skip_bias_add
        THEN Ok([rows |-> output.val, bias |-> self.bias.data])
        ELSE Ok([rows |-> output.val, bias |-> <<>>])

(***************************************************************************)
(* The processes.  A behaviour follows one layer of the model: every rank  *)
(* constructs its instance with the same arguments, reconfigures it        *)
(* between rounds, and calls forward on the round's batch.  A collective   *)
(* completes once every rank of the group has joined it.                   *)
(***************************************************************************)
NoTagging == [destination |-> <<>>, source |-> <<>>, err |-> "none"]

Idle == [pc |-> "idle", err |-> "none", input_mask |-> <<>>,
         output_parallel |-> <<>>, output |-> <<>>]

InitMethodSet == {xavier_normal_, normal_}

ArgSets == [use_cpu_initialization : BOOLEAN, use_bnb_optimizer : BOOLEAN,
            embed_layernorm : {FALSE}, sync_tp_duplicated_parameters : {FALSE},
            seed : {0}]

EmbeddingModels ==
    [cls : {"VocabParallelEmbedding"},
     num_embeddings : 1 .. MaxVocab, embedding_dim : {Width},
     input_size : {0}, output_size : {0},
     init_method : InitMethodSet, bias : {FALSE}, gather_output : {FALSE},
     input_is_parallel : {FALSE}, stride : {1}, skip_bias_add : {FALSE}]

ColumnModels ==
    [cls : {"ColumnParallelLinear"},
     num_embeddings : {0}, embedding_dim : {0},
     input_size : {Width}, output_size : 1 .. MaxVocab,
     init_method : {xavier_normal_}, bias : BOOLEAN, gather_output : BOOLEAN,
     input_is_parallel : {FALSE}, stride : 1 .. MaxStride,
     skip_bias_add : BOOLEAN]

RowModels ==
    [cls : {"RowParallelLinear"},
     num_embeddings : {0}, embedding_dim : {0},
     input_size : 1 .. MaxVocab, output_size : {Width},
     init_method : {xavier_normal_}, bias : BOOLEAN, gather_output : {FALSE},
     input_is_parallel : BOOLEAN, stride : 1 .. MaxStride,
     skip_bias_add : BOOLEAN]

\* the batches a round may be handed
IdBatches(V) == UNION {[1 .. n -> 0 .. V] : n \in 1 .. MaxLen}

ActivationBatches(n) == {<<[j \in 1 .. n |-> 1]>>, <<[j \in 1 .. n |-> j]>>}

Batches ==
    IF model.cls = "VocabParallelEmbedding"
    THEN IdBatches(model.num_embeddings)
    ELSE ActivationBatches(model.input_size)

\* what rank r is handed of the round's batch: a row-parallel layer whose
\* input is already parallel gets the rank's chunk of the last axis
LocalInput(r) ==
    IF model.cls = "RowParallelLinear" /\ model.input_is_parallel
       /\ NumCols(batch) % world = 0
    THEN torch_split(batch, NumCols(batch) \div world, 1)[r + 1]
    ELSE batch

RECURSIVE SumOver(_, _)
\* the elementwise sum, over the ranks of S, of their output_parallel
SumOver(S, f) ==
    IF Cardinality(S) = 1
    THEN LET r == CHOOSE x \in S : TRUE IN f[r].output_parallel
    ELSE LET r == CHOOSE x \in S : TRUE
             rest == SumOver(S \ {r}, f)
         IN  [i \in 1 .. Len(rest) |-> AddRows(f[r].output_parallel[i],
                                               rest[i])]

\* reduce_from_tensor_model_parallel_region: all-reduce (sum) over the group
reduce_from_tensor_model_parallel_region(f) == SumOver(Ranks, f)

\* gather_from_tensor_model_parallel_region: all-gather along the last axis
gather_from_tensor_model_parallel_region(f) ==
    torch_cat([i \in 1 .. world |-> f[i - 1].output_parallel], 1)

Init ==
    /\ world \in 1 .. MaxWorldSize
    /\ model \in EmbeddingModels \cup ColumnModels \cup RowModels
    /\ args \in ArgSets
    /\ args.use_bnb_optimizer => model.cls = "VocabParallelEmbedding"
    /\ layer = [r \in Ranks |->
                  IF model.cls = "VocabParallelEmbedding"
                  THEN NoEmbedding ELSE NoLinear]
    /\ batch = <<>>
    /\ fwd = [r \in Ranks |-> Idle]
    /\ last = [n |-> 0, rank |-> 0, given |-> FALSE, tp_size |-> 0]
    /\ tagged = NoTagging
    /\ host = <<>>

EmbConstruct(r) ==
    /\ model.cls = "VocabParallelEmbedding"
    /\ layer[r].cls = "none"
    /\ \E rt \in Runtimes :
         layer' = [layer EXCEPT ![r] = VocabParallelEmbedding_init(
                      model.num_embeddings, model.embedding_dim,
                      model.init_method, r, rt)]
    /\ UNCHANGED <<tagged, host, world, args, model, batch, fwd, last>>

ColConstruct(r) ==
    /\ model.cls = "ColumnParallelLinear"
    /\ layer[r].cls = "none"
    /\ \E rt \in Runtimes :
         layer' = [layer EXCEPT ![r] = ColumnParallelLinear_init(
                      model.input_size, model.output_size, model.bias,
                      model.gather_output, model.init_method, model.stride,
                      model.skip_bias_add, r, rt)]
    /\ UNCHANGED <<tagged, host, world, args, model, batch, fwd, last>>

RowConstruct(r) ==
    /\ model.cls = "RowParallelLinear"
    /\ layer[r].cls = "none"
    /\ \E rt \in Runtimes :
         layer' = [layer EXCEPT ![r] = RowParallelLinear_init(
                      model.input_size, model.output_size, model.bias,
                      model.input_is_parallel, model.init_method,
                      model.stride, model.skip_bias_add, r, rt)]
    /\ UNCHANGED <<tagged, host, world, args, model, batch, fwd, last>>

\* the arguments of an update_parallel_state call; tp_size = 0 is None
UpdateArgs == {[given |-> FALSE, tp_size |-> 0]}
              \cup [given : {TRUE}, tp_size : 1 .. MaxTp]

CanUpdate(r, cls) ==
    /\ layer[r].cls = cls
    /\ batch = <<>>
    /\ last.n < MaxUpdates

Called(r, a) ==
    [n |-> last.n + 1, rank |-> r, given |-> a.given, tp_size |-> a.tp_size]

EmbUpdateParallelState(r) ==
    /\ CanUpdate(r, "VocabParallelEmbedding")
    /\ \E a \in UpdateArgs, rt \in Runtimes :
         /\ layer' = [layer EXCEPT ![r] =
                        VocabParallelEmbedding_update_parallel_state(
                            layer[r], a.given, a.tp_size, r, rt)]
         /\ last' = Called(r, a)
    /\ UNCHANGED <<tagged, host, world, args, model, batch, fwd>>

ColUpdateParallelState(r) ==
    /\ CanUpdate(r, "ColumnParallelLinear")
    /\ \E a \in UpdateArgs, rt \in Runtimes :
         /\ layer' = [layer EXCEPT ![r] =
                        ColumnParallelLinear_update_parallel_state(
                            layer[r], a.given, a.tp_size, r, rt)]
         /\ last' = Called(r, a)
    /\ UNCHANGED <<tagged, host, world, args, model, batch, fwd>>

RowUpdateParallelState(r) ==
    /\ CanUpdate(r, "RowParallelLinear")
    /\ \E a \in UpdateArgs, rt \in Runtimes :
         /\ layer' = [layer EXCEPT ![r] =
                        RowParallelLinear_update_parallel_state(
                            layer[r], a.given, a.tp_size, r, rt)]
         /\ last' = Called(r, a)
    /\ UNCHANGED <<tagged, host, world, args, model, batch, fwd>>

NextBatch ==
    /\ batch = <<>>
    /\ last.n <= MaxRoundUpdates
    /\ \A r \in Ranks : layer[r].cls # "none"
    /\ batch' \in Batches
    /\ UNCHANGED <<tagged, host, world, args, model, layer, fwd, last>>

Raised(e) == [Idle EXCEPT !.pc = "raised", !.err = e]

Returned(v) == [Idle EXCEPT !.pc = "done", !.output = v]

\* rank r has been handed the batch and has not entered forward yet
CanStep(r) == batch # <<>> /\ fwd[r].pc = "idle"

\* every rank of the group waits in the same collective
AllJoined ==
    \E op \in {"atReduce", "atGather"} : \A r \in Ranks : fwd[r].pc = op

EmbForward(r) ==
    /\ model.cls = "VocabParallelEmbedding"
    /\ CanStep(r)
    /\ LET res == VocabParallelEmbedding_forward(layer[r], batch)
       IN  fwd' = [fwd EXCEPT ![r] =
                IF res.err # "none" THEN Raised(res.err)
                ELSE [Idle EXCEPT !.pc = "atReduce",
                                  !.input_mask = input_mask(layer[r], batch),
                                  !.output_parallel = res.val]]
    /\ UNCHANGED <<tagged, host, world, args, model, layer, batch, last>>

ColForward(r) ==
    /\ model.cls = "ColumnParallelLinear"
    /\ CanStep(r)
    /\ LET res == ColumnParallelLinear_forward(layer[r], batch)
           ret == ColumnParallelLinear_return(layer[r], res.val.output)
       IN  fwd' = [fwd EXCEPT ![r] =
                IF res.err # "none" THEN Raised(res.err)
                ELSE IF res.val.wait
                THEN [Idle EXCEPT !.pc = "atGather",
                                  !.output_parallel = res.val.output]
                ELSE Returned(ret.val)]
    /\ UNCHANGED <<tagged, host, world, args, model, layer, batch, last>>

RowForward(r) ==
    /\ model.cls = "RowParallelLinear"
    /\ CanStep(r)
    /\ LET res == RowParallelLinear_forward(layer[r], LocalInput(r), r)
       IN  fwd' = [fwd EXCEPT ![r] =
                IF res.err # "none" THEN Raised(res.err)
                ELSE [Idle EXCEPT !.pc = "atReduce",
                                  !.output_parallel = res.val]]
    /\ UNCHANGED <<tagged, host, world, args, model, layer, batch, last>>

\* what rank r's forward makes of the collective's result
AfterCollective(r, joined) ==
    CASE model.cls = "VocabParallelEmbedding" ->
            Ok([rows |-> joined, normed |-> layer[r].has_norm])
      [] model.cls = "ColumnParallelLinear" ->
            ColumnParallelLinear_return(layer[r], joined)
      [] model.cls = "RowParallelLinear" ->
            RowParallelLinear_return(layer[r], joined)

\* the Reduce or Gather every rank of the group waits in completes, and
\* every rank runs the rest of its forward
Collective ==
    /\ AllJoined
    /\ LET joined == IF fwd[0].pc = "atReduce"
                     THEN reduce_from_tensor_model_parallel_region(fwd)
                     ELSE gather_from_tensor_model_parallel_region(fwd)
       IN  fwd' = [r \in Ranks |->
                LET res == AfterCollective(r, joined)
                IN  IF res.err # "none"
                    THEN [fwd[r] EXCEPT !.pc = "raised", !.err = res.err]
                    ELSE [fwd[r] EXCEPT !.pc = "done", !.output = res.val]]
    /\ UNCHANGED <<tagged, host, world, args, model, layer, batch, last>>

EndRound ==
    /\ batch # <<>>
    /\ \A r \in Ranks : fwd[r].pc \in {"done", "raised"}
    /\ batch' = <<>>
    /\ fwd' = [r \in Ranks |-> Idle]
    /\ UNCHANGED <<tagged, host, world, args, model, layer, last>>

Next ==
    \/ \E r \in Ranks : EmbConstruct(r)
    \/ \E r \in Ranks : ColConstruct(r)
    \/ \E r \in Ranks : RowConstruct(r)
    \/ \E r \in Ranks : EmbUpdateParallelState(r)
    \/ \E r \in Ranks : ColUpdateParallelState(r)
    \/ \E r \in Ranks : RowUpdateParallelState(r)
    \/ NextBatch
    \/ \E r \in Ranks : EmbForward(r)
    \/ \E r \in Ranks : ColForward(r)
    \/ \E r \in Ranks : RowForward(r)
    \/ Collective
    \/ EndRound

Spec == Init /\ [][Next]_vars

(***************************************************************************)
(* The behaviours that follow a VocabParallelEmbedding.                    *)
(***************************************************************************)
InitEmb == Init /\ model.cls = "VocabParallelEmbedding"

NextEmb ==
    \/ \E r \in Ranks : EmbConstruct(r)
    \/ \E r \in Ranks : EmbUpdateParallelState(r)
    \/ NextBatch
    \/ \E r \in Ranks : EmbForward(r)
    \/ Collective
    \/ EndRound

SpecEmb == InitEmb /\ [][NextEmb]_vars

(***************************************************************************)
(* Properties of VocabParallelEmbedding, checked under SpecEmb.            *)
(***************************************************************************)
IsEmbedding == model.cls = "VocabParallelEmbedding"

\* every rank of the group holds the layer configured for the whole group
GroupConfigured ==
    /\ IsEmbedding
    /\ model.num_embeddings % world = 0
    /\ \A r \in Ranks :
         /\ layer[r].cls = "VocabParallelEmbedding"
         /\ layer[r].parallel_state = [tp_size |-> world, tp_rank |-> r]
         /\ layer[r].has_range
         /\ layer[r].weight.live

\* the rank partitions concatenated in rank order
FullTable == CatRows([i \in 1 .. world |-> layer[i - 1].weight.data])

ValidIds == \A i \in 1 .. Len(batch) : batch[i] < model.num_embeddings

\* C1: in a group of G ranks configured for group size G, G dividing V, a
\* batch of ids in [0, V) makes no rank raise, exactly one rank leaves each
\* id unmasked, the sum over the ranks of the local outputs is the row of
\* the concatenated table for each id, and that is what forward returns
C1_ParallelLookupIsFullLookup ==
    (GroupConfigured /\ batch # <<>> /\ ValidIds) =>
        /\ \A r \in Ranks : fwd[r].pc # "raised"
        /\ (\A r \in Ranks : fwd[r].pc \in {"atReduce", "done"}) =>
              /\ \A i \in 1 .. Len(batch) :
                    /\ SumOver(Ranks, fwd)[i] = FullTable[batch[i] + 1]
                    /\ Cardinality({r \in Ranks :
                                       ~fwd[r].input_mask[i]}) = 1
              /\ \A r \in Ranks :
                    fwd[r].pc = "done" =>
                        fwd[r].output.rows =
                            [i \in 1 .. Len(batch) |->
                                FullTable[batch[i] + 1]]

\* two ranks returned the row of an id that the second rank owns
C1_Witness ==
    /\ GroupConfigured
    /\ world = 2
    /\ model.num_embeddings = 4
    /\ batch = <<3>>
    /\ \A r \in Ranks : fwd[r].pc = "done"
    /\ fwd[0].input_mask[1] /\ ~fwd[1].input_mask[1]
    /\ fwd[0].output.rows = <<layer[1].weight.data[2]>>

\* C4: a forward call on a batch holding an id >= V ends in the ValueError
\* of the range check, with no mask, no lookup result and no collective
\* joined, and leaves every layer as it was
C4_OutOfRangeRaisesFirst ==
    [][\A r \in Ranks :
          (IsEmbedding
           /\ (\E i \in 1 .. Len(batch) : batch[i] >= model.num_embeddings)
           /\ fwd[r].pc = "idle"
           /\ fwd'[r] # fwd[r])
          => (fwd'[r] = Raised("ValueError") /\ layer' = layer)]_vars

\* the id V itself was refused by a rank of a configured group
C4_Witness ==
    /\ GroupConfigured
    /\ world = 2
    /\ batch = <<model.num_embeddings>>
    /\ \E r \in Ranks : fwd[r] = Raised("ValueError")

\* the local partition size a layer has derived
PartitionSize(l) ==
    IF l.cls = "VocabParallelEmbedding"
    THEN <<l.has_range, l.num_embeddings_per_partition>>
    ELSE <<l.has_size, l.output_size_per_partition,
           l.input_size_per_partition>>

\* a layer without the model's record of what its last call raised
Attributes(l) == [l EXCEPT !.err = "none"]

\* C5 as the specification states it: an update_parallel_state call
\* reinitializes the weight exactly when the local partition size changed,
\* and a call with no group size or the recorded one changes nothing
C5_Stated ==
    [][last'.n = last.n + 1 =>
          LET old == layer[last'.rank]
              new == layer'[last'.rank]
          IN  /\ (new.n_init # old.n_init)
                    <=> (PartitionSize(new) # PartitionSize(old))
              /\ (~last'.given
                  \/ last'.tp_size = old.parallel_state.tp_size)
                    => Attributes(new) = Attributes(old)]_vars

\* C7 as the specification states it: every constructed layer records a
\* rank below its group size, and a vocabulary range inside [0, V)
C7_Stated ==
    \A r \in Ranks :
        layer[r].cls # "none" =>
            /\ layer[r].parallel_state.tp_rank
                   < layer[r].parallel_state.tp_size
            /\ (layer[r].cls = "VocabParallelEmbedding"
                /\ layer[r].has_range) =>
                  /\ 0 <= layer[r].vocab_start_index
                  /\ layer[r].vocab_end_index <= layer[r].num_embeddings

(***************************************************************************)
(* The behaviours that follow a ColumnParallelLinear or RowParallelLinear. *)
(***************************************************************************)
InitLin == Init /\ model.cls \in {"ColumnParallelLinear", "RowParallelLinear"}

NextLin ==
    \/ \E r \in Ranks : ColConstruct(r)
    \/ \E r \in Ranks : RowConstruct(r)
    \/ \E r \in Ranks : ColUpdateParallelState(r)
    \/ \E r \in Ranks : RowUpdateParallelState(r)
    \/ NextBatch
    \/ \E r \in Ranks : ColForward(r)
    \/ \E r \in Ranks : RowForward(r)
    \/ Collective
    \/ EndRound

SpecLin == InitLin /\ [][NextLin]_vars

IsColumn == model.cls = "ColumnParallelLinear"

IsRow == model.cls = "RowParallelLinear"

\* the dimension a linear layer splits over the group, and its share of it
SplitDimension(l) ==
    IF l.cls = "ColumnParallelLinear" THEN l.output_size ELSE l.input_size

PerPartitionSize(l) ==
    IF l.cls = "ColumnParallelLinear" THEN l.output_size_per_partition
    ELSE l.input_size_per_partition

ModelSplitDimension == IF IsColumn THEN model.output_size ELSE model.input_size

\* every rank holds the linear layer configured for the whole group, with a
\* weight of its partition's shape
LinearGroupConfigured ==
    /\ IsColumn \/ IsRow
    /\ ModelSplitDimension % world = 0
    /\ \A r \in Ranks :
         /\ layer[r].cls = model.cls
         /\ layer[r].parallel_state = [tp_size |-> world, tp_rank |-> r]
         /\ layer[r].has_size
         /\ layer[r].weight.live
         /\ Len(layer[r].weight.data) =
               (IF IsColumn THEN model.output_size \div world
                ELSE model.output_size)
         /\ NumCols(layer[r].weight.data) =
               (IF IsColumn THEN model.input_size
                ELSE model.input_size \div world)

\* the rank-order concatenation of the weights and of the biases
FullWeight ==
    torch_cat([i \in 1 .. world |-> layer[i - 1].weight.data],
              IF IsColumn THEN 0 ELSE 1)

FullBias ==
    IF layer[0].bias.state # "Parameter" THEN Zeros(model.output_size)
    ELSE IF IsColumn
    THEN CatRows([i \in 1 .. world |-> layer[i - 1].bias.data])
    ELSE layer[0].bias.data

\* what the undivided layer returns on the round's batch
Undivided ==
    LET product == F_linear(batch, FullWeight).val
    IN  IF layer[0].bias.state = "Parameter" /\ model.skip_bias_add
        THEN [rows |-> product, bias |-> FullBias]
        ELSE [rows |-> AddBias(product, FullBias).val, bias |-> <<>>]

\* C2 as the specification states it: in a configured group, a forward call
\* of a gathering ColumnParallelLinear or of a RowParallelLinear that ended
\* has returned, on every rank, the undivided layer's result
C2_Stated ==
    (LinearGroupConfigured /\ batch # <<>>
     /\ (IsColumn => model.gather_output)) =>
        \A r \in Ranks :
            fwd[r].pc \in {"done", "raised"} =>
                /\ fwd[r].pc = "done"
                /\ fwd[r].output.rows = Undivided.rows

\* C3 as the specification states it: a freshly constructed linear layer
\* whose split dimension the group size divides raised nothing, and owns a
\* zero bias of the right length under bias=True and no bias otherwise
C3_Stated ==
    \A r \in Ranks :
        (layer[r].cls \in {"ColumnParallelLinear", "RowParallelLinear"}
         /\ last.n = 0
         /\ ModelSplitDimension % (world * model.stride) = 0) =>
            /\ layer[r].err = "none"
            /\ model.bias =>
                  /\ layer[r].bias.state = "Parameter"
                  /\ layer[r].bias.data =
                        Zeros(IF IsColumn THEN model.output_size \div world
                              ELSE model.output_size)
            /\ ~model.bias => layer[r].bias.state = "None"

\* C6 as the specification states it: an update_parallel_state call with a
\* group size that does not divide the split dimension raises ConfigError
\* and keeps the recorded group size, rank, per-partition size and weight;
\* after every call the per-partition size times the recorded group size is
\* the split dimension
C6_Stated ==
    [][(last'.n = last.n + 1 /\ (IsColumn \/ IsRow)) =>
          LET old == layer[last'.rank]
              new == layer'[last'.rank]
          IN  /\ (last'.given
                  /\ SplitDimension(old) % last'.tp_size # 0) =>
                    /\ new.err = "ConfigError"
                    /\ new.parallel_state = old.parallel_state
                    /\ PartitionSize(new) = PartitionSize(old)
                    /\ new.weight = old.weight
              /\ new.has_size =>
                    PerPartitionSize(new) * new.parallel_state.tp_size
                        = SplitDimension(new)]_vars

(***************************************************************************)
(* The tagging helpers on their own: a destination tensor is tagged, given *)
(* defaults, and copied to from a source tensor, in any order.             *)
(***************************************************************************)
NoModel ==
    [cls |-> "none", num_embeddings |-> 0, embedding_dim |-> 0,
     input_size |-> 0, output_size |-> 0, init_method |-> xavier_normal_,
     bias |-> FALSE, gather_output |-> FALSE, input_is_parallel |-> FALSE,
     stride |-> 1, skip_bias_add |-> FALSE]

HostArgs ==
    [use_cpu_initialization |-> TRUE, use_bnb_optimizer |-> FALSE,
     embed_layernorm |-> FALSE, sync_tp_duplicated_parameters |-> FALSE,
     seed |-> 0]

\* no layer is constructed in these behaviours
NoLayers ==
    /\ world = 1
    /\ args = HostArgs
    /\ model = NoModel
    /\ layer = [r \in Ranks |-> NoLinear]
    /\ batch = <<>>
    /\ fwd = [r \in Ranks |-> Idle]
    /\ last = [n |-> 0, rank |-> 0, given |-> FALSE, tp_size |-> 0]

TagArguments == [is_parallel : BOOLEAN, dim : {-1, 0, 1},
                 stride : 1 .. MaxStride]

\* the tags a source tensor may carry: none, or the three of them
SourceTags ==
    {NoAttrs} \cup
    {set_tensor_model_parallel_attributes(NoAttrs, t.is_parallel, t.dim,
                                          t.stride).val : t \in TagArguments}

InitTags ==
    /\ NoLayers
    /\ host = <<>>
    /\ tagged \in [destination : {NoAttrs}, source : SourceTags,
                   err : {"none"}]

TagSet ==
    /\ \E t \in TagArguments :
         LET res == set_tensor_model_parallel_attributes(
                        tagged.destination, t.is_parallel, t.dim, t.stride)
         IN  tagged' = IF res.err # "none"
                       THEN [tagged EXCEPT !.err = res.err]
                       ELSE [tagged EXCEPT !.destination = res.val,
                                           !.err = "none"]
    /\ UNCHANGED <<host, world, args, model, layer, batch, fwd, last>>

TagDefaults ==
    /\ tagged' = [tagged EXCEPT
                     !.destination =
                         set_defaults_if_not_set_tensor_model_parallel_attributes(
                             tagged.destination),
                     !.err = "none"]
    /\ UNCHANGED <<host, world, args, model, layer, batch, fwd, last>>

TagCopy ==
    /\ tagged' = [tagged EXCEPT
                     !.destination =
                         copy_tensor_model_parallel_attributes(
                             tagged.destination, tagged.source),
                     !.err = "none"]
    /\ UNCHANGED <<host, world, args, model, layer, batch, fwd, last>>

NextTags ==
    \/ TagSet
    \/ TagDefaults
    \/ TagCopy

SpecTags == InitTags /\ [][NextTags]_vars

\* C8 as the specification states it: once the destination carries its
\* three tags, a tagging call that raises nothing leaves them as they were
C8_Stated ==
    [][(AttrNames \subseteq DOMAIN tagged.destination
        /\ tagged'.err = "none")
       => tagged'.destination = tagged.destination]_vars

(***************************************************************************)
(* The host initialization path on its own: the weight of one layer is     *)
(* initialized for every rank of a group of G processes, for several G.    *)
(* host.runs[G] holds what _initialize_affine_weight_cpu left on each rank.*)
(***************************************************************************)
Kinds == {"VocabParallelEmbedding", "ColumnParallelLinear",
          "RowParallelLinear"}

\* the layer whose weight is initialized: `extent` is the size of the
\* dimension the layer splits, Width the size of the other one
HostParams ==
    {p \in [kind : Kinds, use_bnb_optimizer : BOOLEAN,
            init_method : InitMethodSet, stride : 1 .. MaxStride,
            extent : 1 .. MaxExtent, seed : 0 .. MaxSeed] :
        /\ p.use_bnb_optimizer => p.kind = "VocabParallelEmbedding"
        /\ p.kind = "VocabParallelEmbedding" => p.stride = 1}

NotRun == [done |-> FALSE, err |-> "none", slices |-> <<>>]

InitHost ==
    /\ NoLayers
    /\ tagged = NoTagging
    /\ host \in [params : HostParams,
                 runs : {[G \in 1 .. MaxGroup |-> NotRun]}]

\* the arguments the layer of kind p.kind passes for a group of G
HostPartitionDim(p) == IF p.kind = "RowParallelLinear" THEN 1 ELSE 0

HostOutputSize(p) == IF p.kind = "RowParallelLinear" THEN Width ELSE p.extent

HostInputSize(p) == IF p.kind = "RowParallelLinear" THEN p.extent ELSE Width

HostInitMethod(p, G) ==
    IF p.kind = "VocabParallelEmbedding"
    THEN chosen_init_method(p.use_bnb_optimizer, p.init_method, G)
    ELSE p.init_method

\* the layers of ranks 0 .. G-1 derive their partition size and initialize
\* their weight on the host
HostRun(p, G, rt) ==
    LET per == divide(p.extent, G)
        dim == HostPartitionDim(p)
        slices == [i \in 1 .. G |->
                     _initialize_affine_weight_cpu(
                         rt,
                         IF dim = 0 THEN per.val ELSE HostOutputSize(p),
                         IF dim = 0 THEN HostInputSize(p) ELSE per.val,
                         HostOutputSize(p), HostInputSize(p), per.val, dim,
                         HostInitMethod(p, G), p.stride, p.seed, i - 1, G)]
    IN  IF per.err # "none"
        THEN [done |-> TRUE, err |-> per.err, slices |-> <<>>]
        ELSE [done |-> TRUE,
              err |-> IF \E i \in 1 .. G : slices[i].err # "none"
                      THEN "raised" ELSE "none",
              slices |-> slices]

HostInitialize(G) ==
    /\ ~host.runs[G].done
    /\ \E rt \in Runtimes :
         host' = [host EXCEPT !.runs[G] = HostRun(host.params, G, rt)]
    /\ UNCHANGED <<tagged, world, args, model, layer, batch, fwd, last>>

NextHost == \E G \in 1 .. MaxGroup : HostInitialize(G)

SpecHost == InitHost /\ [][NextHost]_vars

\* the master weight built for a group of G
MasterWeight(G) ==
    init_method(HostInitMethod(host.params, G), host.params.seed,
                HostOutputSize(host.params), HostInputSize(host.params))

\* the local weights of a group of G, put together in rank order
Reassembled(G) ==
    torch_cat([i \in 1 .. G |-> host.runs[G].slices[i].val.data],
              HostPartitionDim(host.params))

\* C9 as the specification states it: for any two group sizes that divide
\* the split dimension of a layer without stride, the host path raises
\* nothing and the reassembled weights are the same tensor
C9_Stated ==
    \A G1, G2 \in 1 .. MaxGroup :
        (host.params.stride = 1
         /\ host.params.extent % G1 = 0 /\ host.params.extent % G2 = 0
         /\ host.runs[G1].done /\ host.runs[G2].done) =>
            /\ host.runs[G1].err = "none" /\ host.runs[G2].err = "none"
            /\ Reassembled(G1) = Reassembled(G2)

\* along the partition axis: the entries lo .. hi of a matrix
Along(m, lo, hi) ==
    IF HostPartitionDim(host.params) = 0 THEN SubSeq(m, lo, hi)
    ELSE [i \in 1 .. Len(m) |-> SubSeq(m[i], lo, hi)]

\* the size of one of the G*s sub-blocks, and the k-th of them (from 0)
SubBlockSize(G) == host.params.extent \div (G * host.params.stride)

SubBlock(G, k) ==
    Along(MasterWeight(G), k * SubBlockSize(G) + 1,
          (k + 1) * SubBlockSize(G))

\* the q-th piece (from 0) of the local weight of rank r
Piece(G, r, q) ==
    Along(host.runs[G].slices[r + 1].val.data, q * SubBlockSize(G) + 1,
          (q + 1) * SubBlockSize(G))

\* C10: when G*s divides the split dimension, the host path raises nothing
\* on any rank, the local weight of rank r is made of the s pieces that are
\* the sub-blocks r, r+G, r+2G, ... of the master weight in that order, and
\* every one of the G*s sub-blocks is a piece of exactly one rank
C10_StridedSplit ==
    \A G \in 1 .. MaxGroup :
        (host.runs[G].done
         /\ host.params.extent % (G * host.params.stride) = 0) =>
            /\ host.runs[G].err = "none"
            /\ \A r \in 0 .. (G - 1) :
                  LET w == host.runs[G].slices[r + 1].val.data
                  IN  /\ (IF HostPartitionDim(host.params) = 0
                          THEN Len(w) ELSE NumCols(w))
                             = host.params.stride * SubBlockSize(G)
                      /\ \A q \in 0 .. (host.params.stride - 1) :
                            Piece(G, r, q) = SubBlock(G, r + q * G)
            /\ \A k \in 0 .. (G * host.params.stride - 1) :
                  Cardinality(
                      {r \in 0 .. (G - 1) :
                          \E q \in 0 .. (host.params.stride - 1) :
                              Piece(G, r, q) = SubBlock(G, k)}) = 1

\* stride 3 in a group of 2: sub-blocks 0, 2, 4 on rank 0 and 1, 3, 5 on
\* rank 1
C10_Witness ==
    /\ host.params.kind = "ColumnParallelLinear"
    /\ host.params.stride = 3
    /\ host.params.extent = 6
    /\ host.runs[2].done
    /\ host.runs[2].slices[1].val.data =
          <<MasterWeight(2)[1], MasterWeight(2)[3], MasterWeight(2)[5]>>
    /\ host.runs[2].slices[2].val.data =
          <<MasterWeight(2)[2], MasterWeight(2)[4], MasterWeight(2)[6]>>

(***************************************************************************)
(* The group as one program.  Every rank runs the same code on the same    *)
(* arguments: each constructs its layer, all of them make the same         *)
(* update_parallel_state call under the same torch build, and all are      *)
(* handed the same batch.  A rank that is inside forward goes on running,  *)
(* and a collective that every rank has joined completes.                  *)
(***************************************************************************)
\* update_parallel_state of the class of `self`
update_parallel_state(self, given, tp_size, rank, rt) ==
    CASE self.cls = "VocabParallelEmbedding" ->
            VocabParallelEmbedding_update_parallel_state(self, given,
                                                         tp_size, rank, rt)
      [] self.cls = "ColumnParallelLinear" ->
            ColumnParallelLinear_update_parallel_state(self, given,
                                                       tp_size, rank, rt)
      [] self.cls = "RowParallelLinear" ->
            RowParallelLinear_update_parallel_state(self, given, tp_size,
                                                    rank, rt)

GroupUpdateParallelState ==
    /\ \A r \in Ranks : layer[r].cls # "none"
    /\ batch = <<>>
    /\ last.n < MaxUpdates
    /\ \E a \in UpdateArgs, rt \in Runtimes :
         /\ layer' = [r \in Ranks |->
                        update_parallel_state(layer[r], a.given, a.tp_size,
                                              r, rt)]
         /\ last' = Called(0, a)
    /\ UNCHANGED <<tagged, host, world, args, model, batch, fwd>>

Forward(r) == EmbForward(r) \/ ColForward(r) \/ RowForward(r)

NextGroup ==
    \/ \E r \in Ranks : EmbConstruct(r)
    \/ \E r \in Ranks : ColConstruct(r)
    \/ \E r \in Ranks : RowConstruct(r)
    \/ GroupUpdateParallelState
    \/ NextBatch
    \/ \E r \in Ranks : EmbForward(r)
    \/ \E r \in Ranks : ColForward(r)
    \/ \E r \in Ranks : RowForward(r)
    \/ Collective
    \/ EndRound

SpecGroup ==
    /\ Init
    /\ [][NextGroup]_vars
    /\ \A r \in 0 .. (MaxWorldSize - 1) : WF_vars(r \in Ranks /\ Forward(r))
    /\ WF_vars(Collective)

Waiting == {"atReduce", "atGather"}

\* no rank waits in a collective that another rank will not join
NoRankLeftBehind ==
    \A r1, r2 \in Ranks :
        fwd[r1].pc \in Waiting => fwd[r2].pc \in {"idle", fwd[r1].pc}

ForwardEnded == \A r \in Ranks : fwd[r].pc \in {"done", "raised"}

\* a rank can take the next step of its forward, or the collective that
\* every rank has joined can complete
ForwardCanGoOn ==
    \/ \E r \in Ranks : CanStep(r)
    \/ AllJoined

\* within a round a rank only moves on: from idle into a collective or to
\* the end of the call, and from a collective to the end of the call
RankOnlyMovesOn ==
    [][\A r \in Ranks :
          (batch # <<>> /\ batch' # <<>> /\ fwd'[r] # fwd[r]) =>
              \/ fwd[r].pc = "idle" /\ fwd'[r].pc # "idle"
              \/ fwd[r].pc \in Waiting
                 /\ fwd'[r].pc \in {"done", "raised"}]_vars

\* under SpecGroup every forward call ends on every rank
ForwardEventuallyEnds == [](batch # <<>> => <>ForwardEnded)

\* C11: while the ranks of a group run forward on the same batch, no rank
\* waits in a collective that another rank has not joined or will not
\* join, and until the call has returned or raised on every rank some rank
\* can take its next step or the joined collective can complete; as every
\* rank takes at most two steps (RankOnlyMovesOn), the call ends on every
\* rank
C11_NoRankWaitsForever ==
    batch # <<>> =>
        /\ NoRankLeftBehind
        /\ ForwardEnded \/ ForwardCanGoOn

\* after a reconfiguration of the whole group, both ranks of an embedding
\* went through the Reduce and returned
C11_Witness ==
    /\ world = 2
    /\ IsEmbedding
    /\ last.n = 1 /\ last.given /\ last.tp_size = 1
    /\ \A r \in Ranks : fwd[r].pc = "done" /\ fwd[r].output_parallel # <<>>

(***************************************************************************)
(* forward of a reconfigured VocabParallelEmbedding, under SpecEmb.        *)
(***************************************************************************)
\* the latest constructor or update_parallel_state call of rank r raised
\* nothing and left a range and a weight of the partition's size, for a
\* rank inside the recorded group
Reconfigured(r) ==
    /\ layer[r].cls = "VocabParallelEmbedding"
    /\ layer[r].err = "none"
    /\ layer[r].has_range
    /\ layer[r].weight.live
    /\ Len(layer[r].weight.data) = layer[r].num_embeddings_per_partition
    /\ layer[r].parallel_state.tp_rank < layer[r].parallel_state.tp_size

OutsideRange(l, id) == id < l.vocab_start_index \/ id >= l.vocab_end_index

\* C12 as the specification states it: on ids in [0, V) the forward call of
\* a reconfigured layer raises nothing; when the recorded group size is
\* above 1 it zeroes the ids outside the current range and looks the others
\* up shifted by the start of the range, and it looks every id up directly
\* when the recorded group size is 1
C12_Stated ==
    \A r \in Ranks :
        (Reconfigured(r) /\ batch # <<>> /\ ValidIds
         /\ fwd[r].pc # "idle") =>
            /\ fwd[r].pc # "raised"
            /\ \A i \in 1 .. Len(batch) :
                  fwd[r].output_parallel[i] =
                      IF layer[r].parallel_state.tp_size > 1
                      THEN IF OutsideRange(layer[r], batch[i])
                           THEN Zeros(layer[r].embedding_dim)
                           ELSE layer[r].weight.data[
                                    batch[i] - layer[r].vocab_start_index + 1]
                      ELSE layer[r].weight.data[batch[i] + 1]

(***************************************************************************)
(* The weight a reconfiguration on the host path leaves, under SpecEmb.    *)
(***************************************************************************)
\* the master weight of the embedding under the initializer the layer was
\* constructed with, for a group of G
EmbeddingMasterWeight(G) ==
    init_method(chosen_init_method(args.use_bnb_optimizer,
                                   model.init_method, G),
                args.seed, model.num_embeddings, model.embedding_dim)

\* the rows of the master weight a layer constructed as rank r of a group
\* of G holds: the sub-block r of the G sub-blocks
FreshWeight(G, r) ==
    SubSeq(EmbeddingMasterWeight(G),
           r * (model.num_embeddings \div G) + 1,
           (r + 1) * (model.num_embeddings \div G))

\* C13 as the specification states it: an update_parallel_state call on
\* the host path that raises nothing and changes the partition size, made
\* by a rank inside the new group, leaves the weight a layer freshly
\* constructed for the new group size holds
C13_Stated ==
    [][(last'.n = last.n + 1 /\ IsEmbedding
        /\ args.use_cpu_initialization) =>
          LET old == layer[last'.rank]
              new == layer'[last'.rank]
          IN  (new.err = "none"
               /\ PartitionSize(new) # PartitionSize(old)
               /\ last'.rank < last'.tp_size) =>
                  /\ Len(new.weight.data)
                        = model.num_embeddings \div last'.tp_size
                  /\ new.weight.data = FreshWeight(last'.tp_size,
                                                   last'.rank)]_vars

====
